---- MODULE Spec2Model ----
(***************************************************************************)
(* A model of src/scheduler.py: the task record, the filter/dedup engine,  *)
(* the report builders and the renderer, the line parser, and the settings *)
(* handlers of the bot with the scheduler they restart.                    *)
(*                                                                         *)
(* Representation.                                                         *)
(*  - A datetime is an integer: minutes since 2024-01-01 00:00, which is a *)
(*    Monday, so that day number d has weekday() = d % 7.                  *)
(*  - An Optional value is a sequence: <<>> is None, <<x>> is the value x. *)
(*  - A string is a sequence of lexemes (one-element strings such as "<",  *)
(*    or a word that the code never looks into, such as "Call mom").       *)
(*    An Optional[str] is <<>> for None and for "", which the code never   *)
(*    tells apart (every test on place, time_range and recurrence is a     *)
(*    truthiness test).                                                    *)
(***************************************************************************)
EXTENDS Integers, Sequences, FiniteSets, TLC

VARIABLES now, tasks, view, line, config, scheduler, awaiting, last

vars == <<now, tasks, view, line, config, scheduler, awaiting, last>>

\* The variables of the settings handlers
bot == <<config, scheduler, awaiting, last>>

(***************************************************************************)
(* Bounds of the model.                                                    *)
(***************************************************************************)
\* The clock is observed from FirstDay 00:00 up to the end of LastDay.
FirstDay == 6
LastDay == 8
\* The largest task collection a scan returns.
MaxTasks == 2

(***************************************************************************)
(* datetime arithmetic                                                     *)
(***************************************************************************)
MinutesPerDay == 24 * 60
DaysPerWeek == 7

At(day, hh, mm) == day * MinutesPerDay + hh * 60 + mm

\* d.date() as a day number, dt.hour * 60 + dt.minute, dt.weekday()
DateOf(dt) == dt \div MinutesPerDay
MinuteOfDay(dt) == dt % MinutesPerDay
Weekday(dt) == DateOf(dt) % DaysPerWeek

\* A datetime as the pair <<day, minute of the day>>, which orders as the
\* datetime does; datetime.min and datetime.max, 0001-01-01 00:00 and
\* 9999-12-31 23:59, are too far away for a count of minutes.  2024-01-01
\* is the day of ordinal 738886, and 9999-12-31 the day of ordinal 3652059.
DayMinute(dt) == <<DateOf(dt), MinuteOfDay(dt)>>
DatetimeMin == <<1 - 738886, 0>>
DatetimeMax == <<3652059 - 738886, MinutesPerDay - 1>>

None == <<>>
Some(x) == <<x>>
IsNone(o) == o = <<>>
Val(o) == o[1]

(***************************************************************************)
(* Task (the dataclass) and its derived accessors                          *)
(***************************************************************************)
Task(text, completed, source, due, scheduled, start, recurrence, time_range, place) ==
    [text |-> text, completed |-> completed, source |-> source,
     due |-> due, scheduled |-> scheduled, start |-> start,
     recurrence |-> recurrence, time_range |-> time_range, place |-> place]

\* self.due or self.scheduled or self.start
primary_dt(t) ==
    IF ~IsNone(t.due) THEN t.due
    ELSE IF ~IsNone(t.scheduled) THEN t.scheduled
    ELSE t.start

has_time(t) ==
    IF ~IsNone(t.time_range) THEN TRUE
    ELSE /\ ~IsNone(primary_dt(t))
         /\ MinuteOfDay(Val(primary_dt(t))) # 0

\* (t.text, t.source), the key of the dedup loops
Key(t) == <<t.text, t.source>>

(***************************************************************************)
(* Filtering                                                               *)
(***************************************************************************)
\* For comparison: today() without the replace(hour=0, minute=0, ...)
today_untruncated(clock) == clock

\* datetime.now().replace(hour=0, minute=0, second=0, microsecond=0)
today(clock) == clock - MinuteOfDay(clock)

\* For comparison: filter_tasks with the window closed at its end: start <= dt <= end
filter_tasks_closed(ts, include_completed, date_filter, field, overdue, clock) ==
    LET td == today(clock)
        Keep(t) ==
            /\ ~(~include_completed /\ t.completed)
            /\ ~IsNone(t[field])
            /\ ~(overdue /\ Val(t[field]) >= td)
            /\ ~(/\ ~IsNone(date_filter)
                 /\ ~(date_filter[1] <= Val(t[field]) /\ Val(t[field]) <= date_filter[2]))
    IN  SelectSeq(ts, Keep)

\* date_filter is None (<<>>) or the pair <<start, end>>
filter_tasks(ts, include_completed, date_filter, field, overdue, clock) ==
    LET td == today(clock)
        Keep(t) ==
            /\ ~(~include_completed /\ t.completed)
            /\ ~IsNone(t[field])
            /\ ~(overdue /\ Val(t[field]) >= td)
            /\ ~(/\ ~IsNone(date_filter)
                 /\ ~(date_filter[1] <= Val(t[field]) /\ Val(t[field]) < date_filter[2]))
    IN  SelectSeq(ts, Keep)

\* The loop shared by the three queries: append each task of found, in order,
\* unless its key was seen; seen is the set of keys of result.
RECURSIVE MergeUnseen(_, _)
MergeUnseen(result, found) ==
    IF found = <<>> THEN result
    ELSE LET t == Head(found)
             seen == {Key(result[i]) : i \in 1..Len(result)}
         IN  MergeUnseen(IF Key(t) \in seen THEN result ELSE Append(result, t),
                         Tail(found))

\* For comparison: get_today_tasks without the seen-set
get_today_tasks_nodedup(ts, include_completed, clock) ==
    LET start == today(clock)
        end == today(clock) + MinutesPerDay
        F(field) == filter_tasks(ts, include_completed, <<start, end>>, field, FALSE, clock)
    IN  F("due") \o F("scheduled") \o F("start")

get_today_tasks(ts, include_completed, clock) ==
    LET start == today(clock)
        end == today(clock) + MinutesPerDay
        F(field) == filter_tasks(ts, include_completed, <<start, end>>, field, FALSE, clock)
    IN  MergeUnseen(MergeUnseen(MergeUnseen(<<>>, F("due")), F("scheduled")), F("start"))

\* For comparison: get_week_tasks with start among the fields tried
get_week_tasks_with_start(ts, include_completed, clock) ==
    LET td == today(clock)
        week_start == td - Weekday(td) * MinutesPerDay
        week_end == week_start + DaysPerWeek * MinutesPerDay
        F(field) == filter_tasks(ts, include_completed, <<week_start, week_end>>, field, FALSE, clock)
    IN  MergeUnseen(MergeUnseen(MergeUnseen(<<>>, F("due")), F("scheduled")), F("start"))

get_week_tasks(ts, include_completed, clock) ==
    LET td == today(clock)
        week_start == td - Weekday(td) * MinutesPerDay
        week_end == week_start + DaysPerWeek * MinutesPerDay
        F(field) == filter_tasks(ts, include_completed, <<week_start, week_end>>, field, FALSE, clock)
    IN  MergeUnseen(MergeUnseen(<<>>, F("due")), F("scheduled"))

\* For comparison: get_overdue with start among the fields tried
get_overdue_with_start(ts, clock) ==
    LET F(field) == filter_tasks(ts, FALSE, None, field, TRUE, clock)
    IN  MergeUnseen(MergeUnseen(MergeUnseen(<<>>, F("due")), F("scheduled")), F("start"))

get_overdue(ts, clock) ==
    LET F(field) == filter_tasks(ts, FALSE, None, field, TRUE, clock)
    IN  MergeUnseen(MergeUnseen(<<>>, F("due")), F("scheduled"))

\* For comparison: get_incomplete without the test of completed
get_incomplete_all(ts) == ts

get_incomplete(ts) == SelectSeq(ts, LAMBDA t : ~t.completed)

(***************************************************************************)
(* Sorting                                                                 *)
(***************************************************************************)
\* int() of the two-digit numerals a time_range is written with; a part of
\* several numerals is the number their concatenation spells.
NumeralValue ==
    ("00" :> 0) @@ ("09" :> 9) @@ ("10" :> 10) @@ ("14" :> 14) @@
    ("16" :> 16) @@ ("17" :> 17) @@ ("30" :> 30)

IsInt(part) ==
    /\ part # <<>>
    /\ \A i \in 1..Len(part) : part[i] \in DOMAIN NumeralValue

RECURSIVE IntOf(_)
IntOf(part) ==
    IF part = <<>> THEN 0
    ELSE IntOf(SubSeq(part, 1, Len(part) - 1)) * 100 + NumeralValue[part[Len(part)]]

\* s.split(sep) for a one-lexeme separator: the list of the parts of s
RECURSIVE Split(_, _)
Split(s, sep) ==
    IF \A i \in 1..Len(s) : s[i] # sep THEN <<s>>
    ELSE LET k == CHOOSE i \in 1..Len(s) :
                      s[i] = sep /\ \A j \in 1..(i - 1) : s[j] # sep
         IN  <<SubSeq(s, 1, k - 1)>> \o Split(SubSeq(s, k + 1, Len(s)), sep)

\* The try block of sort_key: <<h, m>> when the start of time_range parses
\* to a clock time that datetime.replace accepts, None when it raises.
time_range_start(t) ==
    LET start_time == Split(t.time_range, "-")[1]
        hm == Split(start_time, ":")
    IN  IF /\ Len(hm) = 2
           /\ IsInt(hm[1]) /\ IsInt(hm[2])
           /\ IntOf(hm[1]) \in 0..23 /\ IntOf(hm[2]) \in 0..59
        THEN Some(<<IntOf(hm[1]), IntOf(hm[2])>>)
        ELSE None

\* The key (rank, datetime) is the triple <<rank, day, minute>>, compared as
\* Python compares tuples.
sort_key(t) ==
    IF ~IsNone(t.time_range) /\ ~IsNone(time_range_start(t))
    THEN LET hm == Val(time_range_start(t))
         IN  <<0, DatetimeMin[1], hm[1] * 60 + hm[2]>>
    ELSE IF IsNone(primary_dt(t)) THEN <<2>> \o DatetimeMax
    ELSE <<IF has_time(t) THEN 0 ELSE 1>> \o DayMinute(Val(primary_dt(t)))

TupleLess(a, b) ==
    \E i \in 1..Len(a) : a[i] < b[i] /\ \A j \in 1..(i - 1) : a[j] = b[j]

\* sorted(seq, key=K), stable and ascending, for keys that are tuples; keyed is
\* the sequence of the records [k |-> K(x), x |-> x].
RECURSIVE InsertByKey(_, _)
InsertByKey(sorted, e) ==
    IF sorted = <<>> THEN <<e>>
    ELSE IF TupleLess(e.k, sorted[Len(sorted)].k)
         THEN Append(InsertByKey(SubSeq(sorted, 1, Len(sorted) - 1), e),
                     sorted[Len(sorted)])
         ELSE Append(sorted, e)

RECURSIVE SortKeyed(_)
SortKeyed(keyed) ==
    IF keyed = <<>> THEN <<>>
    ELSE InsertByKey(SortKeyed(SubSeq(keyed, 1, Len(keyed) - 1)), keyed[Len(keyed)])

Unkeyed(keyed) == [i \in 1..Len(keyed) |-> keyed[i].x]

\* sorted(tasks, key=Task.sort_key)
sorted_tasks(ts) ==
    Unkeyed(SortKeyed([i \in 1..Len(ts) |-> [k |-> sort_key(ts[i]), x |-> ts[i]]]))

(***************************************************************************)
(* Formatting.  A rendered string is a sequence of pieces [o, c]: c is the *)
(* text of the piece and o tells where it comes from.  "tpl" is a literal  *)
(* of the template, "fmt" a number or a date the renderer formats itself,  *)
(* and "usr" one lexeme of a string value that is interpolated into the    *)
(* template: a task field, escaped or not, or display_time.                *)
(***************************************************************************)
Tpl(s) == <<[o |-> "tpl", c |-> s]>>
Fmt(s) == <<[o |-> "fmt", c |-> s]>>
Emb(str) == [i \in 1..Len(str) |-> [o |-> "usr", c |-> str[i]]]

Pad2(n) == IF n < 10 THEN "0" \o ToString(n) ELSE ToString(n)

\* strftime for the dates of January 2024, the month the model's days lie in
strftime_HM(dt) == Pad2(MinuteOfDay(dt) \div 60) \o ":" \o Pad2(MinuteOfDay(dt) % 60)
strftime_md(day) == "01/" \o Pad2(day + 1)
strftime_Ymd(day) == "2024.01." \o Pad2(day + 1)

\* str.replace for one-lexeme patterns
Replace(str, old, new) == [i \in 1..Len(str) |-> IF str[i] = old THEN new ELSE str[i]]

esc(text) == Replace(Replace(Replace(text, "&", "&amp;"), "<", "&lt;"), ">", "&gt;")

\* None is <<>>; otherwise the string: time_range, or the clock time formatted
display_time(t) ==
    IF ~IsNone(t.time_range) THEN t.time_range
    ELSE IF ~IsNone(primary_dt(t)) /\ MinuteOfDay(Val(primary_dt(t))) # 0
         THEN <<strftime_HM(Val(primary_dt(t)))>>
         ELSE None

\* sep.join(parts), parts a sequence of rendered strings
RECURSIVE Join(_, _)
Join(parts, sep) ==
    IF parts = <<>> THEN <<>>
    ELSE IF Len(parts) = 1 THEN parts[1]
    ELSE parts[1] \o sep \o Join(Tail(parts), sep)

fmt_task(t, show_time, show_date, show_source) ==
    LET recur == IF ~IsNone(t.recurrence) THEN Tpl(" (repeat)") ELSE <<>>
        when == IF show_time /\ ~IsNone(display_time(t))
                THEN <<Tpl("<code>") \o Emb(display_time(t)) \o Tpl("</code>")>>
                ELSE IF show_date /\ ~IsNone(primary_dt(t))
                THEN <<Tpl("<code>") \o Fmt(strftime_md(DateOf(Val(primary_dt(t)))))
                       \o Tpl("</code>")>>
                ELSE IF show_time THEN <<Tpl("<code>all-day</code>")>>
                ELSE <<>>
        where == IF ~IsNone(t.place) THEN <<Emb(esc(t.place))>> ELSE <<>>
        from == IF show_source THEN <<Emb(esc(t.source))>> ELSE <<>>
        \* " . " stands for the separator, a middle dot between two spaces
        info_line == Join(when \o where \o from, Tpl(" . "))
        text == Emb(esc(t.text)) \o recur
    IN  IF t.completed
        THEN Tpl("<s>") \o info_line \o Tpl("</s>") \o Tpl("\n") \o Tpl("<blockquote>")
             \o Tpl("<s>") \o text \o Tpl("</s>") \o Tpl("</blockquote>")
        ELSE info_line \o Tpl("\n") \o Tpl("<blockquote>") \o text \o Tpl("</blockquote>")

fmt_tasks(ts, show_time, show_date, show_source) ==
    IF ts = <<>> THEN Tpl("<i>none</i>")
    ELSE LET st == sorted_tasks(ts)
         IN  Join([i \in 1..Len(st) |-> fmt_task(st[i], show_time, show_date, show_source)],
                  Tpl("\n"))

\* Python's order of strings, by code point, for the lexemes the sources are
\* written with (a word stands for its first letter).
CodePoint ==
    ("&" :> 38) @@ ("<" :> 60) @@ (">" :> 62) @@ ("home" :> 104) @@ ("work" :> 119)

RECURSIVE StrLess(_, _)
StrLess(a, b) ==
    IF b = <<>> THEN FALSE
    ELSE IF a = <<>> THEN TRUE
    ELSE IF a[1] # b[1] THEN CodePoint[a[1]] < CodePoint[b[1]]
    ELSE StrLess(Tail(a), Tail(b))

\* sorted(S) for a set S under a strict total order
RECURSIVE SortedStrings(_)
SortedStrings(S) ==
    IF S = {} THEN <<>>
    ELSE LET m == CHOOSE x \in S : \A y \in S \ {x} : StrLess(x, y)
         IN  <<m>> \o SortedStrings(S \ {m})

\* The key of a date group: dt.date() if dt else None
date_key(t) == IF IsNone(primary_dt(t)) THEN None ELSE Some(DateOf(Val(primary_dt(t))))

\* sorted(src_tasks.keys(), key=lambda d: (d is None, d or date.max)); every
\* day sorts before None, whatever date.max is
RECURSIVE SortedDates(_)
SortedDates(S) ==
    IF S = {} THEN <<>>
    ELSE LET Before(x, y) == ~IsNone(x) /\ (IsNone(y) \/ Val(x) < Val(y))
             m == CHOOSE x \in S : \A y \in S \ {x} : Before(x, y)
         IN  <<m>> \o SortedDates(S \ {m})

RECURSIVE Flatten(_)
Flatten(seqs) == IF seqs = <<>> THEN <<>> ELSE Head(seqs) \o Flatten(Tail(seqs))

\* The two lines of one task in fmt_overdue and in build_all
dated_entry(t, d) ==
    LET time_str == IF ~IsNone(display_time(t)) THEN Emb(display_time(t)) ELSE Tpl("all-day")
        date_str == IF ~IsNone(d) THEN Fmt(strftime_md(Val(d))) ELSE Tpl("no date")
        recur == IF ~IsNone(t.recurrence) THEN Tpl(" (repeat)") ELSE <<>>
        parts == <<Tpl("<code>") \o date_str \o Tpl("</code>"),
                   Tpl("<code>") \o time_str \o Tpl("</code>")>>
                 \o (IF ~IsNone(t.place) THEN <<Emb(esc(t.place))>> ELSE <<>>)
    IN  <<Join(parts, Tpl(" . ")),
          Tpl("<blockquote>") \o Emb(esc(t.text)) \o recur \o Tpl("</blockquote>")>>

\* The lines of the tasks of one source, date group after date group; ByKey
\* says whether a group is sorted by Task.sort_key or by primary_dt.
source_lines(ts, src, ByKey) ==
    LET mine == SelectSeq(ts, LAMBDA t : t.source = src)
        dates == SortedDates({date_key(mine[i]) : i \in 1..Len(mine)})
        group(d) == SelectSeq(mine, LAMBDA t : date_key(t) = d)
        keyed(g) == [i \in 1..Len(g) |->
                       [k |-> IF ByKey THEN sort_key(g[i])
                              ELSE IF IsNone(primary_dt(g[i])) THEN DatetimeMax
                              ELSE DayMinute(Val(primary_dt(g[i]))),
                        x |-> g[i]]]
        entries(d) == LET g == Unkeyed(SortKeyed(keyed(group(d))))
                      IN  Flatten([i \in 1..Len(g) |-> dated_entry(g[i], d)])
    IN  Flatten([j \in 1..Len(dates) |-> entries(dates[j])])

fmt_overdue(ts) ==
    IF ts = <<>> THEN Tpl("<i>none</i>")
    ELSE LET srcs == SortedStrings({ts[i].source : i \in 1..Len(ts)})
             block(src) == <<Tpl("<b>") \o Emb(esc(src)) \o Tpl("</b>")>>
                           \o source_lines(ts, src, FALSE)
         IN  Join(Flatten([j \in 1..Len(srcs) |-> block(srcs[j])]), Tpl("\n"))

build_daily(ts, include_completed, clock) ==
    LET overdue == get_overdue(ts, clock)
        today_tasks == get_today_tasks(ts, include_completed, clock)
        head == <<Tpl("<b>") \o Fmt(strftime_Ymd(DateOf(today(clock)))) \o Tpl("</b> | ")
                  \o Fmt(strftime_HM(clock)) \o Tpl("\n")>>
        late == IF overdue # <<>>
                THEN <<Tpl("<b>Overdue</b> (") \o Fmt(ToString(Len(overdue))) \o Tpl(")"),
                       fmt_overdue(overdue), <<>>>>
                ELSE <<>>
        header == IF today_tasks # <<>>
                  THEN Tpl("<b>Today</b> (") \o Fmt(ToString(Len(today_tasks))) \o Tpl(")")
                  ELSE Tpl("<b>Today</b>")
    IN  Join(head \o late \o <<header, fmt_tasks(today_tasks, TRUE, FALSE, TRUE)>>, Tpl("\n"))

DayNames == <<"Mon", "Tue", "Wed", "Thu", "Fri", "Sat", "Sun">>

build_weekly(ts, include_completed, clock) ==
    LET td == today(clock)
        week_start == td - Weekday(td) * MinutesPerDay
        week_end == week_start + 6 * MinutesPerDay
        week_tasks == get_week_tasks(ts, include_completed, clock)
        dated == SelectSeq(week_tasks, LAMBDA t : ~IsNone(primary_dt(t)))
        by_date(d) == SelectSeq(dated, LAMBDA t : DateOf(Val(primary_dt(t))) = d)
        head == <<Tpl("<b>This Week</b>"),
                  Fmt(strftime_md(DateOf(week_start))) \o Tpl(" - ")
                  \o Fmt(strftime_md(DateOf(week_end))) \o Tpl("\n")>>
        day(i) ==
            LET d == DateOf(week_start) + i
                marker == IF d = DateOf(td) THEN Tpl(" (today)") ELSE <<>>
                header == Tpl("<b>") \o Fmt(strftime_md(d)) \o Tpl(" ") \o Tpl(DayNames[i + 1])
                          \o Tpl("</b>") \o marker
                st == sorted_tasks(by_date(d))
            IN  <<header>>
                \o (IF by_date(d) # <<>>
                    THEN [k \in 1..Len(st) |-> Tpl("  ") \o fmt_task(st[k], TRUE, FALSE, TRUE)]
                    ELSE <<Tpl("  -")>>)
                \o <<<<>>>>
    IN  Join(head \o Flatten([i \in 1..DaysPerWeek |-> day(i - 1)]), Tpl("\n"))

build_all(ts) ==
    LET incomplete == get_incomplete(ts)
        srcs == SortedStrings({incomplete[i].source : i \in 1..Len(incomplete)})
        total(src) == Len(SelectSeq(incomplete, LAMBDA t : t.source = src))
        block(src) == <<Tpl("<b>") \o Emb(esc(src)) \o Tpl("</b> (")
                        \o Fmt(ToString(total(src))) \o Tpl(")")>>
                      \o source_lines(incomplete, src, TRUE) \o <<<<>>>>
        head == <<Tpl("<b>All Incomplete</b>"),
                  Tpl("total ") \o Fmt(ToString(Len(incomplete))) \o Tpl("\n")>>
    IN  Join(head \o (IF incomplete = <<>> THEN <<Tpl("<i>all done</i>")>>
                      ELSE Flatten([j \in 1..Len(srcs) |-> block(srcs[j])])),
             Tpl("\n"))

(***************************************************************************)
(* Task parsing.  A line is a sequence of lexemes: the checkbox prefix     *)
(* "- [ ] " or "- [x] " if it has one, then the brackets "[" and "]", the  *)
(* keys of the metadata tags with their "::", date and time literals, "@", *)
(* "/", the repeat glyph, the space " ", and words.  A regular expression  *)
(* is matched lexeme by lexeme as re matches it character by character.    *)
(***************************************************************************)
Checkboxes == {"- [ ] ", "- [x] ", "- [X] "}

MetadataKeys ==
    {"due::", "scheduled::", "start::", "completion::", "recurs::", "repeat::", "created::"}

RepeatGlyph == "(repeat glyph)"

\* The literals \d{4}-\d{2}-\d{2} and \d{1,2}:\d{2} of the model, with the
\* datetime and the minutes strptime reads from them.
DateLiteral == ("2024-01-07" :> At(6, 0, 0)) @@ ("2024-01-08" :> At(7, 0, 0))
TimeLiteral == ("14:30" :> 14 * 60 + 30)

\* The least index k >= from with str[k] in set, or 0
FirstIn(str, from, set) ==
    IF \E k \in from..Len(str) : str[k] \in set
    THEN CHOOSE k \in from..Len(str) :
             str[k] \in set /\ \A j \in from..(k - 1) : str[j] \notin set
    ELSE 0

\* The least index k >= from with str[k] # " ", or Len(str) + 1: \s* from there
SkipSpaces(str, from) ==
    IF \E k \in from..Len(str) : str[k] # " "
    THEN CHOOSE k \in from..Len(str) : str[k] # " " /\ \A j \in from..(k - 1) : str[j] = " "
    ELSE IF from > Len(str) THEN from ELSE Len(str) + 1

\* str.strip()
RECURSIVE Strip(_)
Strip(str) ==
    IF str = <<>> THEN <<>>
    ELSE IF Head(str) = " " THEN Strip(Tail(str))
    ELSE IF str[Len(str)] = " " THEN Strip(SubSeq(str, 1, Len(str) - 1))
    ELSE str

\* METADATA_PATTERN at index i: the index of the "]" that ends the match, or 0.
\* \s*[^\]]* takes every lexeme up to the first "]".
MetadataEnd(str, i) ==
    IF i + 1 <= Len(str) /\ str[i] = "[" /\ str[i + 1] \in MetadataKeys
    THEN FirstIn(str, i + 2, {"]"})
    ELSE 0

\* METADATA_PATTERN.sub("", str), scanning from index i: the matches are
\* found from left to right in str and do not overlap.
RECURSIVE sub_metadata(_, _)
sub_metadata(str, i) ==
    IF i > Len(str) THEN <<>>
    ELSE IF MetadataEnd(str, i) > 0 THEN sub_metadata(str, MetadataEnd(str, i) + 1)
    ELSE <<str[i]>> \o sub_metadata(str, i + 1)

\* TIME_PLACE_PATTERN at an "@" at index i: it always matches; g1 and g2 are
\* the groups (None when the optional bracket is not there or is empty) and
\* end is the index of the last lexeme of the match.
time_place_match(str, i) ==
    LET b1 == IF i + 1 <= Len(str) /\ str[i + 1] = "[" THEN FirstIn(str, i + 2, {"]"}) ELSE 0
        ok1 == b1 > i + 2
        p == IF ok1 THEN b1 ELSE i
        b2 == IF p + 2 <= Len(str) /\ str[p + 1] = "/" /\ str[p + 2] = "["
              THEN FirstIn(str, p + 3, {"]"}) ELSE 0
        ok2 == b2 > p + 3
        q == IF ok2 THEN b2 ELSE p
    IN  [g1 |-> IF ok1 THEN SubSeq(str, i + 2, b1 - 1) ELSE None,
         g2 |-> IF ok2 THEN SubSeq(str, p + 3, b2 - 1) ELSE None,
         end |-> SkipSpaces(str, q + 1) - 1]

\* TIME_PLACE_PATTERN.sub("", str), scanning from index i
RECURSIVE sub_time_place(_, _)
sub_time_place(str, i) ==
    IF i > Len(str) THEN <<>>
    ELSE IF str[i] = "@" THEN sub_time_place(str, time_place_match(str, i).end + 1)
    ELSE <<str[i]>> \o sub_time_place(str, i + 1)

\* re.sub of the repeat glyph with \s*[^\[]* after it, scanning from index i
RECURSIVE sub_repeat_glyph(_, _)
sub_repeat_glyph(str, i) ==
    IF i > Len(str) THEN <<>>
    ELSE IF str[i] = RepeatGlyph
         THEN LET k == FirstIn(str, i + 1, {"["})
              IN  IF k = 0 THEN <<>> ELSE sub_repeat_glyph(str, k)
    ELSE <<str[i]>> \o sub_repeat_glyph(str, i + 1)

\* DATE_PATTERNS[key] at index i: None, or the datetime parse_datetime reads
\* from group 1: "[" key \s* date ( \s+ time )? "]"
date_at(str, i, key) ==
    IF ~(i + 1 <= Len(str) /\ str[i] = "[" /\ str[i + 1] = key) THEN None
    ELSE LET d == SkipSpaces(str, i + 2)
             t == SkipSpaces(str, d + 1)
         IN  IF ~(d <= Len(str) /\ str[d] \in DOMAIN DateLiteral) THEN None
             ELSE IF d + 1 <= Len(str) /\ str[d + 1] = "]" THEN Some(DateLiteral[str[d]])
             ELSE IF /\ t > d + 1 /\ t + 1 <= Len(str)
                     /\ str[t] \in DOMAIN TimeLiteral /\ str[t + 1] = "]"
                  THEN Some(DateLiteral[str[d]] + TimeLiteral[str[t]])
             ELSE None

\* parse_datetime(m.group(1)) if (m := p.search(content)) else None
date_search(str, key) ==
    IF \E i \in 1..Len(str) : ~IsNone(date_at(str, i, key))
    THEN date_at(str, CHOOSE i \in 1..Len(str) :
                          /\ ~IsNone(date_at(str, i, key))
                          /\ \A j \in 1..(i - 1) : IsNone(date_at(str, j, key)),
                 key)
    ELSE None

\* RECUR_PATTERN at index i: None, or the group that matched: the value of a
\* [recurs:: ] or [repeat:: ] tag, or what follows the repeat glyph up to the
\* next "[".  Both groups take at least one character.
recur_at(str, i) ==
    IF i + 1 <= Len(str) /\ str[i] = "[" /\ str[i + 1] \in {"recurs::", "repeat::"}
    THEN LET e == FirstIn(str, i + 2, {"]"})
             v == SkipSpaces(str, i + 2)
         IN  IF e = 0 \/ e = i + 2 THEN None
             ELSE Some(SubSeq(str, IF v < e THEN v ELSE e - 1, e - 1))
    ELSE IF str[i] = RepeatGlyph
    THEN LET k == FirstIn(str, i + 1, {"["})
             e == IF k = 0 THEN Len(str) ELSE k - 1
             v == SkipSpaces(str, i + 1)
         IN  IF e < i + 1 THEN None
             ELSE Some(SubSeq(str, IF v <= e THEN v ELSE e, e))
    ELSE None

\* (recur_match.group(1) or recur_match.group(2)).strip() if recur_match else None
recur_search(str) ==
    IF \E i \in 1..Len(str) : ~IsNone(recur_at(str, i))
    THEN Strip(Val(recur_at(str, CHOOSE i \in 1..Len(str) :
                                     /\ ~IsNone(recur_at(str, i))
                                     /\ \A j \in 1..(i - 1) : IsNone(recur_at(str, j)))))
    ELSE None

\* None, or Some(the Task).  TASK_PATTERN asks for the checkbox and for at
\* least one character after it that \s* does not take.
parse_task(ln, source) ==
    LET box == SkipSpaces(ln, 1)
    IN
    IF ~(box <= Len(ln) /\ ln[box] \in Checkboxes /\ SkipSpaces(ln, box + 1) <= Len(ln))
    THEN None
    ELSE
    LET completed == ln[box] # "- [ ] "
        content == SubSeq(ln, SkipSpaces(ln, box + 1), Len(ln))
        at == FirstIn(content, 1, {"@"})
        tp == IF at > 0 THEN time_place_match(content, at) ELSE [g1 |-> None, g2 |-> None, end |-> 0]
        tagged == at > 0 /\ (~IsNone(tp.g1) \/ ~IsNone(tp.g2))
        content_for_text == IF tagged THEN sub_time_place(content, 1) ELSE content
        text == Strip(sub_repeat_glyph(sub_metadata(content_for_text, 1), 1))
    IN  IF text = <<>> THEN None
        ELSE Some(Task(text, completed, source,
                       date_search(content, "due::"), date_search(content, "scheduled::"),
                       date_search(content, "start::"), recur_search(content),
                       IF tagged THEN tp.g1 ELSE None, IF tagged THEN tp.g2 ELSE None))

(***************************************************************************)
(* The configuration and the scheduler.  The configuration is the content  *)
(* of config.yml, which load_config reads and save_config writes; a        *)
(* notification time is a string "HH:MM".  The scheduler is the set of the *)
(* ids of the jobs of the running AsyncIOScheduler.                        *)
(***************************************************************************)
\* int(h), int(m) of h, m = t.split(":"), for the texts of the model that
\* match ^\d{1,2}:\d{2}$
ClockOf ==
    ("00:00" :> <<0, 0>>) @@ ("09:00" :> <<9, 0>>) @@ ("9:00" :> <<9, 0>>) @@
    ("14:30" :> <<14, 30>>) @@ ("21:00" :> <<21, 0>>) @@ ("25:00" :> <<25, 0>>)

DefaultConfig ==
    [notification_times |-> <<"09:00", "21:00", "00:00">>,
     timezone |-> "Asia/Seoul", test_mode |-> FALSE]

get_notification_times(cfg) ==
    [i \in 1..Len(cfg.notification_times) |-> ClockOf[cfg.notification_times[i]]]

is_test_mode(cfg) == cfg.test_mode

\* The ids of the jobs setup_scheduler adds, for the configuration it loads
setup_scheduler(cfg) ==
    IF is_test_mode(cfg) THEN {"test"}
    ELSE LET times == get_notification_times(cfg)
         IN  {"notif_" \o ToString(times[i][1]) \o "_" \o ToString(times[i][2]) :
                  i \in 1..Len(times)}

\* For comparison: restart_scheduler called before save_config, when
\* setup_scheduler still loads the configuration as it was
restart_scheduler_before_save(cfg) == setup_scheduler(config)

\* The scheduler restart_scheduler leaves running; both globals it tests
\* are set by main() before the first update is handled.
restart_scheduler(cfg) == setup_scheduler(cfg)

\* list.remove(x): without the first occurrence of x, which the list holds
Remove(list, x) ==
    LET k == CHOOSE i \in 1..Len(list) : list[i] = x /\ \A j \in 1..(i - 1) : list[j] # x
    IN  SubSeq(list, 1, k - 1) \o SubSeq(list, k + 1, Len(list))

\* list.sort() of zero-padded "HH:MM" strings: their order as strings is the
\* order of the clock times
SortedTimes(list) ==
    Unkeyed(SortKeyed([i \in 1..Len(list) |-> [k |-> ClockOf[list[i]], x |-> list[i]]]))

\* The state main() leaves when polling starts, for the configuration cfg
Started(cfg) ==
    /\ config = cfg
    /\ scheduler = setup_scheduler(cfg)
    /\ awaiting = None
    /\ last = [op |-> "start", arg |-> "", steps |-> <<>>, before |-> "start", was |-> cfg]

(***************************************************************************)
(* The state.                                                              *)
(*   now    the wall clock, read by today() and by datetime.now()          *)
(*   tasks  what get_all_tasks() returns: the task lines of the documents, *)
(*          which nothing in the program ever writes                       *)
(*   view   the result of the request being served: which function, its    *)
(*          arguments, the clock reading it was computed at, what it       *)
(*          returned and, for a report, the tasks it lists in order        *)
(*   line   the text line handed to parse_task                             *)
(* A request is served at one reading of the clock; its result is gone     *)
(* when the clock is next read.                                            *)
(***************************************************************************)
View(kind, ic, win, out, listed) ==
    [kind |-> kind, ic |-> ic, at |-> now, win |-> win, out |-> out, listed |-> listed]

NoView == [kind |-> "none", ic |-> FALSE, at |-> 0, win |-> None, out |-> <<>>, listed |-> <<>>]

\* The clock is read at midnight and at 15:00 of every day.
Afternoon == 15 * 60

Tick ==
    /\ now' = IF MinuteOfDay(now) = 0 THEN now + Afternoon ELSE today(now) + MinutesPerDay
    /\ DateOf(now') <= LastDay
    /\ view' = NoView
    /\ UNCHANGED <<tasks, line, bot>>

GetTodayTasks ==
    \E ic \in BOOLEAN :
        /\ view' = View("today", ic, None, get_today_tasks(tasks, ic, now), <<>>)
        /\ UNCHANGED <<now, tasks, line, bot>>

GetWeekTasks ==
    \E ic \in BOOLEAN :
        /\ view' = View("week", ic, None, get_week_tasks(tasks, ic, now), <<>>)
        /\ UNCHANGED <<now, tasks, line, bot>>

GetOverdue ==
    /\ view' = View("overdue", FALSE, None, get_overdue(tasks, now), <<>>)
    /\ UNCHANGED <<now, tasks, line, bot>>

GetIncomplete ==
    /\ view' = View("incomplete", FALSE, None, get_incomplete(tasks), <<>>)
    /\ UNCHANGED <<now, tasks, line, bot>>

\* The dates the tasks of the model carry, around the night from Sunday
\* 2024-01-07 to Monday 2024-01-08, the first instant of the following week.
Sun0000 == At(6, 0, 0)
Sun1430 == At(6, 14, 30)
Mon0000 == At(7, 0, 0)
Mon1430 == At(7, 14, 30)

\* All sequences over S of length at most n
SeqsUpTo(S, n) == UNION {[1..k -> S] : k \in 0..n}

Word(w) == <<w>>

\* The task lines of the query model: in two documents, done or not, with
\* no date, one date in one of the three fields, or a due with a scheduled or
\* with a start.
DateCases ==
    {<<None, None, None>>, <<Some(Sun1430), None, None>>, <<None, Some(Mon0000), None>>,
     <<None, None, Some(Sun1430)>>, <<Some(Sun1430), Some(Mon0000), None>>,
     <<Some(Sun1430), None, Some(Sun1430)>>}

QueryTasks ==
    {Task(Word("Call mom"), c, src, d[1], d[2], d[3], None, None, None) :
        c \in BOOLEAN, src \in {Word("home"), Word("work")}, d \in DateCases}

Init ==
    /\ now = At(FirstDay, 0, 0)
    /\ tasks \in SeqsUpTo(QueryTasks, MaxTasks)
    /\ view = NoView
    /\ line = <<>>
    /\ Started(DefaultConfig)

Next ==
    \/ Tick
    \/ GetTodayTasks
    \/ GetWeekTasks
    \/ GetOverdue
    \/ GetIncomplete

Spec == Init /\ [][Next]_vars

(***************************************************************************)
(* filter_tasks called with a date window on the field due                 *)
(***************************************************************************)
WindowEdges == {Sun0000, Sun1430, Mon0000}

\* date_filter=(start, end) with start < end, as every caller builds it
FilterTasks ==
    \E ic \in BOOLEAN, lo \in WindowEdges, hi \in WindowEdges :
        /\ lo < hi
        /\ view' = View("filter", ic, <<lo, hi>>,
                        filter_tasks(tasks, ic, <<lo, hi>>, "due", FALSE, now), <<>>)
        /\ UNCHANGED <<now, tasks, line, bot>>

WindowTasks ==
    {Task(Word("Call mom"), c, Word("home"), due, None, None, None, None, None) :
        c \in BOOLEAN, due \in {None} \cup {Some(e) : e \in WindowEdges}}

InitFilter ==
    /\ now = At(FirstDay, 0, 0)
    /\ tasks \in SeqsUpTo(WindowTasks, MaxTasks)
    /\ view = NoView
    /\ line = <<>>
    /\ Started(DefaultConfig)

NextFilter ==
    \/ Tick
    \/ FilterTasks

SpecFilter == InitFilter /\ [][NextFilter]_vars

(***************************************************************************)
(* The reports                                                             *)
(***************************************************************************)
BuildDaily ==
    \E ic \in BOOLEAN :
        /\ view' = View("daily", ic, None, build_daily(tasks, ic, now),
                        sorted_tasks(get_today_tasks(tasks, ic, now)))
        /\ UNCHANGED <<now, tasks, line, bot>>

BuildWeekly ==
    \E ic \in BOOLEAN :
        /\ view' = View("weekly", ic, None, build_weekly(tasks, ic, now),
                        get_week_tasks(tasks, ic, now))
        /\ UNCHANGED <<now, tasks, line, bot>>

BuildAll ==
    /\ view' = View("all", FALSE, None, build_all(tasks), get_incomplete(tasks))
    /\ UNCHANGED <<now, tasks, line, bot>>

\* What a line's @[TIME]/[PLACE] tag gives: no tag, a time range with a room,
\* and a tag whose two brackets hold markup characters.
Markup == <<"<", "&", ">">>

TimePlaceTags ==
    {<<None, None>>,
     <<<<"16", ":", "00", "-", "17", ":", "00">>, Word("Room 9")>>,
     <<Markup, Markup>>}

ReportDates ==
    {<<None, None>>, <<Some(Mon1430), None>>, <<None, Some(Mon0000)>>,
     <<Some(Sun1430), Some(Mon0000)>>}

ReportTasks ==
    {Task(text, c, Word("home"), d[1], d[2], None, None, tp[1], tp[2]) :
        text \in {Word("Meeting"), Markup}, c \in BOOLEAN,
        d \in ReportDates, tp \in TimePlaceTags}

InitReport ==
    /\ now = At(FirstDay, 0, 0)
    /\ tasks \in SeqsUpTo(ReportTasks, MaxTasks)
    /\ view = NoView
    /\ line = <<>>
    /\ Started(DefaultConfig)

NextReport ==
    \/ Tick
    \/ BuildDaily
    \/ BuildWeekly
    \/ BuildAll

SpecReport == InitReport /\ [][NextReport]_vars

(***************************************************************************)
(* Parsing a line, and parsing again the line rebuilt from the text        *)
(***************************************************************************)
\* The longest content of a line, in lexemes, after the checkbox
MaxContent == 6

ContentLexemes == {"[", "]", "due::", "2024-01-08", "x"}

ParseTask ==
    /\ view.kind = "none"
    /\ view' = View("parse", FALSE, None, parse_task(line, Word("home")), <<>>)
    /\ UNCHANGED <<now, tasks, line, bot>>

\* The checkbox line of a task's display text
Rebuilt(t) == <<IF t.completed THEN "- [x] " ELSE "- [ ] ">> \o t.text

Reparse ==
    /\ view.kind = "parse"
    /\ ~IsNone(view.out)
    /\ line' = Rebuilt(Val(view.out))
    /\ view' = View("reparse", FALSE, None, parse_task(line', Word("home")), view.out)
    /\ UNCHANGED <<now, tasks, bot>>

InitParse ==
    /\ now = At(FirstDay, 0, 0)
    /\ tasks = <<>>
    /\ view = NoView
    /\ Started(DefaultConfig)
    /\ line \in {box \o content :
                    box \in {<<>>, <<"- [ ] ">>, <<"- [x] ">>},
                    content \in SeqsUpTo(ContentLexemes, MaxContent)}

NextParse ==
    \/ ParseTask
    \/ Reparse

SpecParse == InitParse /\ [][NextParse]_vars

(***************************************************************************)
(* Parsing a line that holds "@" characters and time/place tags            *)
(***************************************************************************)
\* The longest content of such a line, in pieces
MaxPieces == 4

\* The pieces a line is put together from: a word, a lone "@", "[", "]" or
\* "/", and the three shapes of the tag.
TagPieces ==
    {<<"x">>, <<"@">>, <<"[">>, <<"]">>, <<"/">>,
     <<"@", "[", "14:30", "]">>,
     <<"@", "/", "[", "Room 9", "]">>,
     <<"@", "[", "14:30", "]", "/", "[", "Room 9", "]">>}

InitTag ==
    /\ now = At(FirstDay, 0, 0)
    /\ tasks = <<>>
    /\ view = NoView
    /\ Started(DefaultConfig)
    /\ line \in {box \o Flatten(pieces) :
                    box \in {<<"- [ ] ">>, <<"- [x] ">>},
                    pieces \in SeqsUpTo(TagPieces, MaxPieces)}

NextTag ==
    \/ ParseTask
    \/ Reparse

SpecTag == InitTag /\ [][NextTag]_vars

(***************************************************************************)
(* The settings handlers.  A handler runs from its first statement to its  *)
(* last await without yielding between save_config and restart_scheduler,  *)
(* and updates are handled one after the other.  last records the update   *)
(* just handled: which one, its argument, what the handler did in order    *)
(* ("save", "restart", "reply", and "read" when it took the text as a time *)
(* to add), the update handled before it, and the configuration it found.  *)
(***************************************************************************)
Handled(op, arg, steps) ==
    [op |-> op, arg |-> arg, steps |-> steps, before |-> last.op, was |-> config]

\* on_callback, data == "settings", and the command /settings
PressSettings ==
    /\ last' = Handled("settings", "", <<"reply">>)
    /\ UNCHANGED <<now, tasks, view, line, config, scheduler, awaiting>>

\* on_callback, data == "toggle_test"
PressToggleTest ==
    /\ config' = [config EXCEPT !.test_mode = ~config.test_mode]
    /\ scheduler' = restart_scheduler(config')
    /\ last' = Handled("toggle_test", "", <<"save", "restart", "reply">>)
    /\ UNCHANGED <<now, tasks, view, line, awaiting>>

\* on_callback, data == "add_time"
PressAddTime ==
    /\ awaiting' = Some("add_time")
    /\ last' = Handled("add_time", "", <<"reply">>)
    /\ UNCHANGED <<now, tasks, view, line, config, scheduler>>

\* on_callback, data == "remove_time": a message, or the keyboard of the times
PressRemoveTime ==
    /\ last' = Handled("remove_time", "", <<"reply">>)
    /\ UNCHANGED <<now, tasks, view, line, config, scheduler, awaiting>>

\* The times a button of a keyboard sent earlier may name
RemovableTimes == {"00:00", "09:00", "14:30", "21:00"}

\* on_callback, data == "rm_" + time_to_remove
PressRm ==
    \E time_to_remove \in RemovableTimes :
        LET times == config.notification_times
            found == \E i \in 1..Len(times) : times[i] = time_to_remove
        IN  /\ config' = IF found
                         THEN [config EXCEPT !.notification_times = Remove(times, time_to_remove)]
                         ELSE config
            /\ scheduler' = IF found THEN restart_scheduler(config') ELSE scheduler
            /\ last' = Handled("rm", time_to_remove,
                               IF found THEN <<"save", "restart", "reply">> ELSE <<"reply">>)
            /\ UNCHANGED <<now, tasks, view, line, awaiting>>

\* on_callback, the default callbacks: the report CALLBACKS[data] builds
PressReport ==
    \E data \in {"refresh", "today_all", "week_all", "weekly", "all"} :
        /\ view' = IF data = "refresh" THEN View("daily", FALSE, None, build_daily(tasks, FALSE, now), <<>>)
                   ELSE IF data = "today_all" THEN View("daily", TRUE, None, build_daily(tasks, TRUE, now), <<>>)
                   ELSE IF data = "week_all" THEN View("weekly", TRUE, None, build_weekly(tasks, TRUE, now), <<>>)
                   ELSE IF data = "weekly" THEN View("weekly", FALSE, None, build_weekly(tasks, FALSE, now), <<>>)
                   ELSE View("all", FALSE, None, build_all(tasks), <<>>)
        /\ last' = Handled("report", data, <<"reply">>)
        /\ UNCHANGED <<now, tasks, line, config, scheduler, awaiting>>

\* The texts a user sends: times, one of them not zero-padded, an hour that
\* is out of range, and a text that is not a time
Texts == {"14:30", "09:00", "9:00", "25:00", "soon"}

\* handle_message
HandleMessage ==
    \E text \in Texts :
        IF awaiting # Some("add_time")
        THEN /\ last' = Handled("text", text, <<>>)
             /\ UNCHANGED <<now, tasks, view, line, config, scheduler, awaiting>>
        ELSE LET valid == /\ text \in DOMAIN ClockOf
                          /\ ClockOf[text][1] \in 0..23 /\ ClockOf[text][2] \in 0..59
                 time_str == Pad2(ClockOf[text][1]) \o ":" \o Pad2(ClockOf[text][2])
                 times == config.notification_times
                 new == valid /\ \A i \in 1..Len(times) : times[i] # time_str
             IN  /\ awaiting' = None
                 /\ config' = IF new
                              THEN [config EXCEPT
                                       !.notification_times = SortedTimes(Append(times, time_str))]
                              ELSE config
                 /\ scheduler' = IF new THEN restart_scheduler(config') ELSE scheduler
                 /\ last' = Handled("text", text,
                                    IF new THEN <<"read", "save", "restart", "reply">>
                                    ELSE <<"read", "reply">>)
                 /\ UNCHANGED <<now, tasks, view, line>>

\* The configurations the bot may be started with
StartConfigs ==
    {[notification_times |-> times, timezone |-> "Asia/Seoul", test_mode |-> test] :
        times \in {<<>>, <<"09:00">>, DefaultConfig.notification_times}, test \in BOOLEAN}

InitBot ==
    /\ now = At(FirstDay, 0, 0)
    /\ tasks = <<>>
    /\ view = NoView
    /\ line = <<>>
    /\ \E cfg \in StartConfigs : Started(cfg)

NextBot ==
    \/ PressSettings
    \/ PressToggleTest
    \/ PressAddTime
    \/ PressRemoveTime
    \/ PressRm
    \/ PressReport
    \/ HandleMessage

SpecBot == InitBot /\ [][NextBot]_vars

(***************************************************************************)
(* Properties of the queries                                               *)
(***************************************************************************)
Range(seq) == {seq[i] : i \in 1..Len(seq)}
Keys(seq) == {Key(seq[i]) : i \in 1..Len(seq)}

\* Midnight of the day of an instant, and Monday 00:00 of its week, computed
\* from the calendar and not by the code.
MidnightOf(at) == (at \div MinutesPerDay) * MinutesPerDay
MondayOf(at) == (at \div (DaysPerWeek * MinutesPerDay)) * (DaysPerWeek * MinutesPerDay)

\* The tasks that pass the filter underlying the query the view shows, for
\* one of the date fields the query tries.
PassingTheFilter ==
    LET fields == IF view.kind = "today" THEN {"due", "scheduled", "start"}
                  ELSE {"due", "scheduled"}
        window == IF view.kind = "today"
                  THEN <<MidnightOf(view.at), MidnightOf(view.at) + MinutesPerDay>>
                  ELSE IF view.kind = "week"
                  THEN <<MondayOf(view.at), MondayOf(view.at) + DaysPerWeek * MinutesPerDay>>
                  ELSE None
    IN  UNION {Range(filter_tasks(tasks, view.ic, window, f, view.kind = "overdue", view.at)) :
                   f \in fields}

\* C1: the result of the today, this-week and overdue queries holds exactly
\* one entry for every (text, source) key among the tasks that pass the
\* underlying filter: no two entries share a key, and every key of a passing
\* task has its entry, so that the same text in two sources gives two entries.
C1_OneEntryPerKey ==
    view.kind \in {"today", "week", "overdue"} =>
        /\ \A i, j \in 1..Len(view.out) :
               i # j => Key(view.out[i]) # Key(view.out[j])
        /\ Keys(view.out) = {Key(t) : t \in PassingTheFilter}
        /\ Range(view.out) \subseteq PassingTheFilter

\* Two lines with the same text in the same document are both due today and
\* the today query returns one entry; before that the same text in two
\* documents gave two.
C1_Witness ==
    /\ view.kind = "today"
    /\ Len(tasks) = 2
    /\ tasks[1] # tasks[2]
    /\ Key(tasks[1]) = Key(tasks[2])
    /\ {tasks[1], tasks[2]} \subseteq PassingTheFilter
    /\ Len(view.out) = 1

\* C2: filter_tasks with a date window (start, end) on the field due takes the
\* window as half-open: every task returned has its due in [start, end), a
\* task due exactly at end is not returned, and a task due exactly at start
\* is returned unless its completion excludes it.
C2_HalfOpenWindow ==
    view.kind = "filter" =>
        LET lo == view.win[1]
            hi == view.win[2]
        IN  /\ \A t \in Range(view.out) :
                   ~IsNone(t.due) /\ lo <= Val(t.due) /\ Val(t.due) < hi
            /\ \A t \in Range(tasks) : t.due = Some(hi) => t \notin Range(view.out)
            /\ \A t \in Range(tasks) :
                   (t.due = Some(lo) /\ (view.ic \/ ~t.completed)) => t \in Range(view.out)

\* A collection with a task due at the start and a task due at the end of the
\* window has been filtered: the first is returned and the second is not.
C2_Witness ==
    /\ view.kind = "filter"
    /\ \E t \in Range(tasks) : t.due = Some(view.win[1]) /\ t \in Range(view.out)
    /\ \E t \in Range(tasks) : t.due = Some(view.win[2]) /\ t \notin Range(view.out)

\* A date that lies strictly before midnight of the day of the view
BeforeToday(o) == ~IsNone(o) /\ Val(o) < MidnightOf(view.at)

\* C3: a (text, source) key is in the result of the overdue query if and only
\* if some incomplete task with that key has a due or a scheduled date
\* strictly before midnight of the current day; no task returned has both of
\* them absent or at or after that midnight, so that a task whose only date is
\* start is never returned.
C3_OverdueIff ==
    view.kind = "overdue" =>
        /\ Keys(view.out) =
               {Key(t) : t \in {u \in Range(tasks) :
                             ~u.completed /\ (BeforeToday(u.due) \/ BeforeToday(u.scheduled))}}
        /\ \A t \in Range(view.out) :
               ~t.completed /\ (BeforeToday(t.due) \/ BeforeToday(t.scheduled))
        /\ \A t \in Range(tasks) :
               (IsNone(t.due) /\ IsNone(t.scheduled)) => t \notin Range(view.out)

\* The overdue query has run on a collection with an incomplete task whose
\* only date, a start, is before today, and with a task that is overdue: it
\* returned the second and not the first.
C3_Witness ==
    /\ view.kind = "overdue"
    /\ view.out # <<>>
    /\ \E t \in Range(tasks) :
           /\ ~t.completed /\ IsNone(t.due) /\ IsNone(t.scheduled)
           /\ BeforeToday(t.start)
           /\ t \notin Range(view.out)

\* An incomplete task whose only date is a due at a time other than midnight
DueOnlyWithTime(t) ==
    /\ ~t.completed
    /\ ~IsNone(t.due) /\ MinuteOfDay(Val(t.due)) # 0
    /\ IsNone(t.scheduled) /\ IsNone(t.start)

\* C4: for an incomplete task whose only date is a due on day D at a time
\* other than midnight, at every instant of day D the today query returns
\* the entry of the task and the overdue query does not return the task, and
\* at every instant of day D+1 the overdue query returns the entry of the task
\* and the today query no longer returns the task.  (An entry stands for every
\* task of its key: the first one found is the one kept.)
C4_TodayThenOverdue ==
    \A t \in Range(tasks) :
        DueOnlyWithTime(t) =>
            LET D == DateOf(Val(t.due))
            IN  /\ (view.kind = "today" /\ DateOf(view.at) = D)
                       => Key(t) \in Keys(view.out)
                /\ (view.kind = "overdue" /\ DateOf(view.at) = D)
                       => t \notin Range(view.out)
                /\ (view.kind = "overdue" /\ DateOf(view.at) = D + 1)
                       => Key(t) \in Keys(view.out)
                /\ (view.kind = "today" /\ DateOf(view.at) = D + 1)
                       => t \notin Range(view.out)

\* The clock has passed from day D to day D+1 and the overdue query returns
\* the task that is due on D at 14:30.
C4_Witness ==
    /\ view.kind = "overdue"
    /\ \E t \in Range(view.out) :
           DueOnlyWithTime(t) /\ DateOf(view.at) = DateOf(Val(t.due)) + 1

\* C5: a completed task with no due, no scheduled and no start is returned by
\* none of the queries: today and this-week with either value of
\* include_completed, overdue, and incomplete-all.
C5_DatelessDoneNeverReturned ==
    view.kind \in {"today", "week", "overdue", "incomplete"} =>
        \A t \in Range(tasks) :
            (t.completed /\ IsNone(t.due) /\ IsNone(t.scheduled) /\ IsNone(t.start))
                => t \notin Range(view.out)

\* The incomplete-all query has run on a collection holding a completed task
\* without dates and an incomplete task, and returned only the second.
C5_Witness ==
    /\ view.kind = "incomplete"
    /\ Len(view.out) = 1
    /\ \E t \in Range(tasks) :
           t.completed /\ IsNone(t.due) /\ IsNone(t.scheduled) /\ IsNone(t.start)

\* A date in [Monday 00:00 of the week of the view, the following Monday 00:00)
InThisWeek(o) ==
    /\ ~IsNone(o)
    /\ MondayOf(view.at) <= Val(o)
    /\ Val(o) < MondayOf(view.at) + DaysPerWeek * MinutesPerDay

\* C8: the this-week query returns a task only if its due or its scheduled
\* lies in [Monday 00:00 of the current week, the following Monday 00:00); a
\* task whose only date is start is not returned, and neither is a task whose
\* only date is the following Monday 00:00.
C8_WeekWindow ==
    view.kind = "week" =>
        /\ \A t \in Range(view.out) : InThisWeek(t.due) \/ InThisWeek(t.scheduled)
        /\ \A t \in Range(tasks) :
               (IsNone(t.due) /\ IsNone(t.scheduled)) => t \notin Range(view.out)

\* The this-week query has run on a collection with a task whose only date is
\* a start inside the week and a task scheduled at the following Monday
\* 00:00, and returned neither.
C8_Witness ==
    /\ view.kind = "week"
    /\ view.ic
    /\ \E t \in Range(tasks) :
           /\ IsNone(t.due) /\ IsNone(t.scheduled) /\ InThisWeek(t.start)
           /\ t \notin Range(view.out)
    /\ \E t \in Range(tasks) :
           /\ IsNone(t.due)
           /\ t.scheduled = Some(MondayOf(view.at) + DaysPerWeek * MinutesPerDay)
           /\ t \notin Range(view.out)

(***************************************************************************)
(* Properties of the reports                                               *)
(***************************************************************************)
MarkupCharacters == {"<", ">", "&"}

\* C6: in the output of every renderer, no '<', '>' or unescaped '&' comes
\* from a string that is interpolated into the template (task text, place,
\* source, time_range shown as display time): the only markup characters
\* are those of the template.
C6_AllUserTextEscaped ==
    view.kind \in {"daily", "weekly", "all"} =>
        \A i \in 1..Len(view.out) :
            view.out[i].o = "usr" => view.out[i].c \notin MarkupCharacters

\* The time a time-bearing task starts at, in minutes of the day: the start of
\* time_range where it reads as a clock time, else the time of primary_dt.
\* None for a task with neither.
StartsAt(t) ==
    IF ~IsNone(t.time_range) /\ ~IsNone(time_range_start(t))
    THEN Some(Val(time_range_start(t))[1] * 60 + Val(time_range_start(t))[2])
    ELSE IF IsNone(t.time_range) /\ has_time(t)
    THEN Some(MinuteOfDay(Val(primary_dt(t))))
    ELSE None

\* C7: in a list rendered with the task sort key, every time-bearing task
\* comes before every all-day task; of two time-bearing tasks of the same
\* day, the one that starts earlier is not listed after the one that starts
\* later, whether the time is carried by time_range or by primary_dt; all-day
\* tasks are ascending by primary_dt; tasks with no date come last.
C7_ListedInTimeOrder ==
    view.kind = "daily" =>
        \A i, j \in 1..Len(view.listed) :
            i < j =>
                LET a == view.listed[i]
                    b == view.listed[j]
                IN  /\ ~(~has_time(a) /\ has_time(b))
                    /\ (/\ ~IsNone(StartsAt(a)) /\ ~IsNone(StartsAt(b))
                        /\ ~IsNone(primary_dt(a)) /\ ~IsNone(primary_dt(b))
                        /\ DateOf(Val(primary_dt(a))) = DateOf(Val(primary_dt(b))))
                           => Val(StartsAt(a)) <= Val(StartsAt(b))
                    /\ (/\ ~has_time(a) /\ ~has_time(b)
                        /\ ~IsNone(primary_dt(a)) /\ ~IsNone(primary_dt(b)))
                           => Val(primary_dt(a)) <= Val(primary_dt(b))
                    /\ ~(/\ ~has_time(a) /\ IsNone(primary_dt(a))
                         /\ ~IsNone(primary_dt(b)))

\* The task entries a report prints: each one opens one blockquote.
EntriesPrinted(out) ==
    Cardinality({i \in 1..Len(out) : out[i] = [o |-> "tpl", c |-> "<blockquote>"]})

\* C10: the weekly report prints, over its seven day subsections, as many
\* task entries as the this-week query returns tasks.
C10_WeeklyListsEveryTask ==
    view.kind = "weekly" => EntriesPrinted(view.out) = Len(view.listed)

\* C13: in a daily report no task is listed both in the Overdue section and
\* in the Today section: the (text, source) keys of the overdue tasks and of
\* the tasks of today, taken at the instant of the report, are disjoint.
C13_OverdueAndTodayDisjoint ==
    view.kind = "daily" =>
        Keys(get_overdue(tasks, view.at)) \cap Keys(view.listed) = {}

(***************************************************************************)
(* Properties of the parser                                                *)
(***************************************************************************)
\* A [key:: value] tag of one of the seven keys somewhere in a text
HasMetadataTag(text) ==
    \E i \in 1..Len(text) :
        /\ text[i] = "["
        /\ i + 1 <= Len(text) /\ text[i + 1] \in MetadataKeys
        /\ \E j \in (i + 2)..Len(text) : text[j] = "]"

\* C9: the text of a parsed task holds no metadata tag, and parsing the
\* checkbox line rebuilt from that text gives the same text again, with no
\* date and no recurrence.
C9_ParseIdempotent ==
    /\ (view.kind = "parse" /\ ~IsNone(view.out)) => ~HasMetadataTag(Val(view.out).text)
    /\ view.kind = "reparse" =>
           /\ ~IsNone(view.out)
           /\ Val(view.out).text = Val(view.listed).text
           /\ IsNone(Val(view.out).due)
           /\ IsNone(Val(view.out).scheduled)
           /\ IsNone(Val(view.out).start)
           /\ IsNone(Val(view.out).recurrence)

\* The index of the "]" that closes a non-empty bracket opened at index i of
\* c, or 0 when no such bracket starts there
BracketClose(c, i) ==
    IF /\ i + 2 <= Len(c) /\ c[i] = "[" /\ c[i + 1] # "]"
       /\ \E j \in (i + 2)..Len(c) : c[j] = "]"
    THEN CHOOSE j \in (i + 2)..Len(c) :
             c[j] = "]" /\ \A k \in (i + 1)..(j - 1) : c[k] # "]"
    ELSE 0

\* The time/place tag that starts at the "@" at index i of c, read from the
\* three shapes @[TIME]/[PLACE], @[TIME] and @/[PLACE]: its two brackets
\* (None when absent) and the index of its last lexeme.  last = 0 when the
\* "@" is followed by neither bracket and so is no tag.
TagAt(c, i) ==
    LET t == BracketClose(c, i + 1)
        afterTime == IF t > 0 THEN t ELSE i
        slash == afterTime + 1 <= Len(c) /\ c[afterTime + 1] = "/"
        pl == IF slash THEN BracketClose(c, afterTime + 2) ELSE 0
    IN  [time |-> IF t > 0 THEN Some(SubSeq(c, i + 2, t - 1)) ELSE None,
         place |-> IF pl > 0 THEN Some(SubSeq(c, afterTime + 3, pl - 1)) ELSE None,
         last |-> IF i > Len(c) \/ c[i] # "@" THEN 0
                  ELSE IF pl > 0 THEN pl ELSE t]

IsTag(c, i) == i \in 1..Len(c) /\ TagAt(c, i).last > 0

\* C11: when the content of a checkbox line holds a time/place tag (and no
\* second one after it), parse_task takes time_range and place from the tag
\* and removes the tag, and nothing else, from the text; an "@" followed by
\* neither bracket stays in the text and does not keep the tag from being
\* read.
C11_TagCapturedAndRemoved ==
    (view.kind = "parse" /\ Len(line) >= 1 /\ line[1] \in Checkboxes) =>
        LET c == Tail(line)
        IN  \A i \in 1..Len(c) :
                (/\ IsTag(c, i)
                 /\ \A j \in 1..(i - 1) : ~IsTag(c, j)
                 /\ \A j \in (TagAt(c, i).last + 1)..Len(c) : ~IsTag(c, j)
                 /\ SubSeq(c, 1, i - 1) \o SubSeq(c, TagAt(c, i).last + 1, Len(c)) # <<>>)
                => /\ ~IsNone(view.out)
                   /\ Val(view.out).time_range
                          = (IF IsNone(TagAt(c, i).time) THEN None ELSE Val(TagAt(c, i).time))
                   /\ Val(view.out).place
                          = (IF IsNone(TagAt(c, i).place) THEN None ELSE Val(TagAt(c, i).place))
                   /\ Val(view.out).text
                          = SubSeq(c, 1, i - 1) \o SubSeq(c, TagAt(c, i).last + 1, Len(c))

(***************************************************************************)
(* Properties of the settings handlers                                     *)
(***************************************************************************)
\* The id of the cron job of a configured time
JobIdOf ==
    ("00:00" :> "notif_0_0") @@ ("09:00" :> "notif_9_0") @@
    ("14:30" :> "notif_14_30") @@ ("21:00" :> "notif_21_0")

\* The index of a step in what the last handler did, 0 if it did not do it
StepAt(step) ==
    IF \E i \in 1..Len(last.steps) : last.steps[i] = step
    THEN CHOOSE i \in 1..Len(last.steps) : last.steps[i] = step
    ELSE 0

\* C12: after any sequence of settings operations, the jobs of the running
\* scheduler are those of the persisted configuration: the single interval
\* job in test mode, otherwise one cron job per configured time.  An
\* operation that changed the configuration saved it, then restarted the
\* scheduler, then replied; one that changed nothing neither saved nor
\* restarted.
C12_SchedulerFollowsConfig ==
    LET times == config.notification_times
    IN  /\ config.test_mode => scheduler = {"test"}
        /\ ~config.test_mode =>
               /\ scheduler = {JobIdOf[times[i]] : i \in 1..Len(times)}
               /\ Cardinality(scheduler) = Len(times)
        /\ (last.op \in {"toggle_test", "rm", "text"} /\ config # last.was) =>
               /\ 0 < StepAt("save")
               /\ StepAt("save") < StepAt("restart")
               /\ StepAt("restart") < StepAt("reply")
        /\ (last.op \in {"rm", "text"} /\ config = last.was) =>
               StepAt("save") = 0 /\ StepAt("restart") = 0

\* A time was added, out of test mode, to a configuration that held other
\* times: the scheduler runs the job of the new time with theirs.
C12_Witness ==
    /\ last.op = "text"
    /\ config # last.was
    /\ ~config.test_mode
    /\ Len(config.notification_times) >= 2
    /\ "notif_14_30" \in scheduler
    /\ last.before = "add_time"

\* C14: a text message is taken as a notification time to add only if the
\* update handled just before it was the press of Add Time, so that any
\* other button pressed in between cancels the pending input; and one text
\* message, valid or not, uses the pending input up.
C14_TextReadOnlyAfterAddTime ==
    /\ (last.op = "text" /\ StepAt("read") > 0) => last.before = "add_time"
    /\ (last.op = "text" /\ last.before = "add_time") =>
           StepAt("read") > 0 /\ awaiting = None
    /\ (last.op = "text" /\ last.before = "text") => StepAt("read") = 0

====
